---- MODULE Spec2Model ----
(***************************************************************************)
(* The integration test harness of chatterbox                              *)
(* (integration_tests/integration_test_suite.py): the check runner        *)
(* _run_test, the battery run_all_tests with its nine check procedures,   *)
(* the report generator generate_summary_report and the script entry      *)
(* point main; and of its runner (integration_tests/                      *)
(* run_integration_tests.py), which installs the requirements, runs the   *)
(* battery and turns its summary into the exit status.                    *)
(*                                                                         *)
(* Python values are written as tagged tuples: None is <<"None">>, a      *)
(* string s is <<"str", s>>, a number n is <<"num", n>>, an object is     *)
(* <<"obj", id>>.  A float quotient a / b is the reduced fraction         *)
(* <<"frac", p, q>> with q > 0.  A dict with string keys and scalar       *)
(* values is the set of its <<key, value>> items.                          *)
(***************************************************************************)
EXTENDS Integers, Sequences, FiniteSets, TLC

VARIABLES
    caller,     \* who drives the tester: "api" (method calls), "script" (main
                \* of the suite), "runner" (run_integration_tests.main) or
                \* "repeat" (run_all_tests called again on the same tester)
    cuda,       \* torch.cuda.is_available() on this host
    flaky,      \* whether a time/memory sampling call of the host may raise
    steady,     \* whether the host's loader and synthesis calls never fail
    printed,    \* the verdict lines run_integration_tests.main has printed
    results,    \* self.results
    model_tts,  \* self.model_tts
    loads,      \* number of ChatterboxTTS.from_pretrained calls made so far
    report,     \* the file <output_dir>/integration_test_report.json
    ret,        \* value returned by the last generate_summary_report call
    raised,     \* exception that left the last top-level call, or "none"
    pc,         \* position in run_all_tests: 0 outside, 1..9 next check, 10 report
    batteries,  \* number of run_all_tests calls that have ended
    exit_code,  \* exit status of the script process, <<"None">> while it runs
    invoked,    \* history: the check procedures invoked and what each did, in order
    sampled,    \* history: the accelerator memory read before and after the
                \* procedure in the last _run_test call
    returned,   \* history: the TestResults returned by _run_test, in order
    lastOp      \* history: the last harness operation that ran; "... twice"
                \* when generate_summary_report ran right after itself

vars == <<caller, cuda, flaky, steady, printed, results, model_tts, loads,
          report, ret, raised, pc, batteries, exit_code, invoked, sampled,
          returned, lastOp>>

(***************************************************************************)
(* Bounds of the model.                                                    *)
(***************************************************************************)
\* a time, resident-memory or accelerator-memory reading lies in 0..MaxSample
MaxSample == 1
\* number of procedures of its own an api caller has _run_test invoke
MaxResults == 2

\* run_all_tests calls a repeating caller makes on one tester
MaxBatteries == 2

None == <<"None">>
Str(s) == <<"str", s>>
Num(n) == <<"num", n>>
Obj(i) == <<"obj", i>>

(***************************************************************************)
(* Arithmetic helpers.                                                     *)
(***************************************************************************)
Abs(n) == IF n < 0 THEN -n ELSE n

RECURSIVE Gcd(_, _)
Gcd(a, b) == IF b = 0 THEN a ELSE Gcd(b, a % b)

\* the float a / b for b > 0, exactly
Frac(a, b) ==
    LET g == Gcd(Abs(a), b) IN <<"frac", a \div g, b \div g>>

RECURSIVE SumSeq(_)
SumSeq(s) == IF s = <<>> THEN 0 ELSE Head(s) + SumSeq(Tail(s))

RECURSIVE MaxSeq(_)
MaxSeq(s) ==
    IF Len(s) = 1 THEN s[1]
    ELSE LET m == MaxSeq(Tail(s)) IN IF s[1] >= m THEN s[1] ELSE m

\* np.mean of a non-empty list
np_mean(s) == Frac(SumSeq(s), Len(s))

\* np.max of a non-empty list
np_max(s) == Num(MaxSeq(s))

(***************************************************************************)
(* class TestResult                                                        *)
(***************************************************************************)
TestResult(name, ok, time, ram, gpu, info, err) ==
    [test_name |-> name, success |-> ok, execution_time |-> time,
     memory_usage_mb |-> ram, gpu_memory_mb |-> gpu, output_info |-> info,
     error_message |-> err]

\* TestResult.to_dict: dataclasses.asdict, a dict of the seven fields
to_dict(r) ==
    {<<"test_name", r.test_name>>, <<"success", r.success>>,
     <<"execution_time", r.execution_time>>,
     <<"memory_usage_mb", r.memory_usage_mb>>,
     <<"gpu_memory_mb", r.gpu_memory_mb>>,
     <<"output_info", r.output_info>>,
     <<"error_message", r.error_message>>}

\* ChatterboxIntegrationTester._detect_device on a host without mps
_detect_device == IF cuda THEN "cuda" ELSE "cpu"

(***************************************************************************)
(* _get_memory_usage: the pair (ram_mb, gpu_mb) built from the two host    *)
(* readings; gpu_mb stays None without cuda.                               *)
(***************************************************************************)
_get_memory_usage(ram, gpu) == <<ram, IF cuda THEN Num(gpu) ELSE None>>

\* truth value of an Optional[float]
Truthy(v) == v # None /\ v[2] # 0

\* the gpu_memory_mb expression of _run_test
GpuDelta(start_gpu, end_gpu) ==
    IF Truthy(end_gpu) /\ Truthy(start_gpu)
    THEN Num(end_gpu[2] - start_gpu[2])
    ELSE None

(***************************************************************************)
(* generate_summary_report, the summary dict.  Defined for a non-empty     *)
(* result list; on an empty one the success_rate division raises.         *)
(***************************************************************************)
successful_tests(rs) == SelectSeq(rs, LAMBDA r : r.success)

\* variant: "if r.error_message" in place of "if not r.success"
failed_tests_Truthy(rs) ==
    SelectSeq(rs, LAMBDA r : r.error_message # None /\ r.error_message # Str(""))

failed_tests(rs) == SelectSeq(rs, LAMBDA r : ~r.success)

\* variant: the times of all results, not of the successful ones
execution_times_All(rs) == [i \in 1..Len(rs) |-> rs[i].execution_time]

\* [r.execution_time for r in successful_tests]
execution_times(rs) ==
    [i \in 1..Len(successful_tests(rs)) |-> successful_tests(rs)[i].execution_time]

\* [r.memory_usage_mb for r in successful_tests]
memory_usage(rs) ==
    [i \in 1..Len(successful_tests(rs)) |-> successful_tests(rs)[i].memory_usage_mb]

\* [{"name": r.test_name, "error": r.error_message} for r in failed_tests]
FailedList(rs) ==
    [i \in 1..Len(failed_tests(rs)) |->
        [name |-> failed_tests(rs)[i].test_name,
         error |-> failed_tests(rs)[i].error_message]]

Summary(rs) ==
    [test_summary |->
        [total_tests |-> Len(rs),
         successful_tests |-> Len(successful_tests(rs)),
         failed_tests |-> Len(failed_tests(rs)),
         success_rate |-> Frac(Len(successful_tests(rs)) * 100, Len(rs))],
     performance_summary |->
        [avg_execution_time |->
            IF execution_times(rs) # <<>> THEN np_mean(execution_times(rs)) ELSE Num(0),
         max_execution_time |->
            IF execution_times(rs) # <<>> THEN np_max(execution_times(rs)) ELSE Num(0),
         avg_memory_usage_mb |->
            IF memory_usage(rs) # <<>> THEN np_mean(memory_usage(rs)) ELSE Num(0),
         max_memory_usage_mb |->
            IF memory_usage(rs) # <<>> THEN np_max(memory_usage(rs)) ELSE Num(0)],
     failed_tests |-> FailedList(rs),
     device_info |-> [device |-> _detect_device, cuda_available |-> cuda]]

\* the dict written to integration_test_report.json
DetailedResults(rs) ==
    [summary |-> Summary(rs),
     detailed_results |-> [i \in 1..Len(rs) |-> to_dict(rs[i])]]

(***************************************************************************)
(* The external synthesis capability.  ChatterboxTTS.from_pretrained       *)
(* either returns a new instance or raises; generate and torchaudio.save   *)
(* either return or raise.  An outcome of a check procedure is a record:   *)
(* whether it raised, the payload it returned, str(e) of what it raised,   *)
(* and self.model_tts and the number of loader calls when it ended.        *)
(***************************************************************************)
Returns(info, model, n) ==
    [raises |-> FALSE, value |-> info, error |-> None, model |-> model, loads |-> n]

Raises(kind, model, n) ==
    [raises |-> TRUE, value |-> None, error |-> Str(kind), model |-> model, loads |-> n]

\* variant: the procedure loads the model whether or not one is loaded
EnsureModel_Always(model, n) ==
    {<<TRUE, Obj(n + 1), n + 1>>, <<FALSE, model, n + 1>>}

\* "if not self.model_tts: self.model_tts = ChatterboxTTS.from_pretrained(...)":
\* the set of (loader succeeded, model_tts afterwards, loader calls afterwards)
EnsureModel(model, n) ==
    IF model = None
    THEN {<<TRUE, Obj(n + 1), n + 1>>, <<FALSE, model, n + 1>>}
    ELSE {<<TRUE, model, n>>}

\* a procedure that loads the model lazily, then makes calls that may raise
\* one of `failures`, and returns one of `payloads` when none did
Synthesis(model, n, failures, payloads) ==
    UNION {IF l[1]
           THEN {Returns(p, l[2], l[3]) : p \in payloads}
                \cup {Raises(f, l[2], l[3]) : f \in failures}
           ELSE {Raises("CapabilityInitializationFailure", l[2], l[3])}
           : l \in EnsureModel(model, n)}

test_model_loading(model, n) ==
    {Returns({<<"model_loaded", "True">>, <<"device", _detect_device>>},
             Obj(n + 1), n + 1),
     Raises("CapabilityInitializationFailure", model, n + 1)}

test_basic_tts(model, n) ==
    Synthesis(model, n, {"SynthesisFailure", "IOFailure"},
              {{<<"output_file", "basic_tts.wav">>}})

test_parameter_variations(model, n) ==
    Synthesis(model, n, {"SynthesisFailure", "IOFailure"},
              {{<<"param_set_0", "params_test_0.wav">>,
                <<"param_set_1", "params_test_1.wav">>,
                <<"param_set_2", "params_test_2.wav">>}})

test_text_variations(model, n) ==
    Synthesis(model, n, {"SynthesisFailure", "IOFailure"},
              {{<<"text_0", "text_variation_0.wav">>,
                <<"text_1", "text_variation_1.wav">>,
                <<"text_2", "text_variation_2.wav">>,
                <<"text_3", "text_variation_3.wav">>,
                <<"text_4", "text_variation_4.wav">>}})

test_performance_benchmarks(model, n) ==
    Synthesis(model, n, {"SynthesisFailure"},
              {{<<"short", "rtf">>, <<"medium", "rtf">>, <<"long", "rtf">>}})

\* calls _get_memory_usage itself: a sampling failure there is a failure of
\* the procedure
test_memory_usage_patterns(model, n) ==
    Synthesis(model, n,
              {"SynthesisFailure"} \cup (IF flaky THEN {"SamplingFailure"} ELSE {}),
              {{<<"memory_snapshots", "5">>}})

\* str(bool) of Python
PyBool(b) == IF b THEN "True" ELSE "False"

\* the four edge cases, each in a try/except of its own: oks[i] tells whether
\* the i-th generate call returned
EdgeCases == <<"empty_text", "single_char", "very_long_text", "extreme_params">>

\* variant: a failed generate call ends the procedure's walk over the cases
EdgeAttempted_StopAtFailure(oks) ==
    {i \in 1..Len(EdgeCases) : \A j \in 1..(i - 1) : oks[j]}

\* the try blocks the procedure reaches: "except Exception" of each block
\* catches the failure of its call, so control always reaches the next one
EdgeAttempted(oks) == 1..Len(EdgeCases)

\* the generate calls made, in order, each with whether it returned
EdgeCalls(oks) ==
    [i \in 1..Cardinality(EdgeAttempted(oks)) |->
        [case |-> EdgeCases[i], ok |-> oks[i]]]

\* the dict "results" the procedure returns
EdgePayload(oks) == {<<EdgeCases[i], PyBool(oks[i])>> : i \in EdgeAttempted(oks)}

EdgeOutcome(oks, model, n) ==
    [raises |-> FALSE, value |-> EdgePayload(oks), error |-> None,
     model |-> model, loads |-> n, calls |-> EdgeCalls(oks)]

test_edge_cases(model, n) ==
    UNION {IF l[1]
           THEN {EdgeOutcome(oks, l[2], l[3]) : oks \in [1..Len(EdgeCases) -> BOOLEAN]}
           ELSE {Raises("CapabilityInitializationFailure", l[2], l[3])}
           : l \in EnsureModel(model, n)}

test_concurrent_usage(model, n) ==
    Synthesis(model, n, {"SynthesisFailure"}, {{<<"total_calls", "5">>}})

test_api_consistency(model, n) ==
    Synthesis(model, n, {"SynthesisFailure"},
              {{<<"shapes_consistent", "True">>}})

\* the checks of run_all_tests, in the order it runs them
Battery ==
    <<"Model Loading", "Basic TTS", "Parameter Variations", "Text Variations",
      "Performance Benchmarks", "Memory Usage Patterns", "Edge Cases",
      "Concurrent Usage", "API Consistency">>

\* the procedure run_all_tests passes to _run_test for its i-th check
BatteryProcedure(i, model, n) ==
    CASE i = 1 -> test_model_loading(model, n)
      [] i = 2 -> test_basic_tts(model, n)
      [] i = 3 -> test_parameter_variations(model, n)
      [] i = 4 -> test_text_variations(model, n)
      [] i = 5 -> test_performance_benchmarks(model, n)
      [] i = 6 -> test_memory_usage_patterns(model, n)
      [] i = 7 -> test_edge_cases(model, n)
      [] i = 8 -> test_concurrent_usage(model, n)
      [] i = 9 -> test_api_consistency(model, n)

\* a procedure an api caller passes to _run_test: it returns a payload or
\* raises, and leaves the tester alone
CallerProcedure(model, n) ==
    {Returns({<<"shape", "[1, 16000]">>}, model, n),
     Raises("CUDA out of memory", model, n),
     Raises("", model, n)}

\* what a procedure can do on this host: on a steady host no call to the
\* loader or to generate fails
HostOutcomes(S) ==
    IF steady
    THEN {o \in S : ~o.raises /\ \A e \in o.value : e[2] # PyBool(FALSE)}
    ELSE S

(***************************************************************************)
(* The host readings around one _run_test call: time.time() and the two    *)
(* readings of _get_memory_usage, before (0) and after (1) the procedure.  *)
(* Within one call at most one of the three meters moves off its idle      *)
(* reading 0; the clock does not run backwards.                            *)
(***************************************************************************)
Reading(t0, t1, r0, r1, g0, g1) ==
    [t0 |-> t0, t1 |-> t1, r0 |-> r0, r1 |-> r1, g0 |-> g0, g1 |-> g1]

IdleReading == Reading(0, 0, 0, 0, 0, 0)

Readings ==
    {Reading(a, b, 0, 0, 0, 0) : a \in 0..MaxSample, b \in 0..MaxSample}
    \cup {Reading(0, 0, a, b, 0, 0) : a \in 0..MaxSample, b \in 0..MaxSample}
    \cup (IF cuda
          THEN {Reading(0, 0, 0, 0, a, b) : a \in 0..MaxSample, b \in 0..MaxSample}
          ELSE {})

CallerReadings == {s \in Readings : s.t0 <= s.t1}

\* where a sampling call of _run_test raises, if the host is flaky:
\* "before" is line 85, "after" is line 99
SamplingFaults == IF flaky THEN {"none", "before", "after"} ELSE {"none"}

(***************************************************************************)
(* _run_test                                                               *)
(***************************************************************************)
\* variant: a handler that lets a failure to load the model through
Catches_NotLoading(e) == e # Str("CapabilityInitializationFailure")

\* "except Exception": whether the handler catches the failure e of a procedure
Catches(e) == TRUE

\* variant: the except branch forgets error_message
Guarded_NoMessage(out) ==
    IF out.raises THEN <<{}, FALSE, None>> ELSE <<out.value, TRUE, None>>

\* the try/except around test_func: (output_info, success, error_message)
Guarded(out) ==
    IF out.raises THEN <<{}, FALSE, out.error>> ELSE <<out.value, TRUE, None>>

\* the TestResult built from the outcome of the procedure and the readings
RunTestResult(name, out, s) ==
    LET start == _get_memory_usage(s.r0, s.g0)
        end == _get_memory_usage(s.r1, s.g1)
        g == Guarded(out)
    IN TestResult(name, g[2], s.t1 - s.t0, end[1] - start[1],
                  GpuDelta(start[2], end[2]), g[1], g[3])

\* variant: self.results.insert(0, result)
AppendResult_Front(rs, r) == <<r>> \o rs

\* self.results.append(result)
AppendResult(rs, r) == Append(rs, r)

\* the exception that leaves _run_test, or "none": a sampling call stands
\* outside the try, a failure of the procedure inside it
Propagated(out, fault) ==
    IF fault = "before" THEN "SamplingFailure"
    ELSE IF out.raises /\ ~Catches(out.error) THEN "CheckFailure"
    ELSE IF fault = "after" THEN "SamplingFailure"
    ELSE "none"

\* the history entry of one invocation of a procedure: what it did
Invocation(name, out) ==
    [name |-> name, raises |-> out.raises, value |-> out.value,
     error |-> out.error,
     calls |-> IF "calls" \in DOMAIN out THEN out.calls ELSE <<>>]

\* one call _run_test(name, test_func): out is what test_func does, s the host
\* readings, fault the sampling call that raises
_run_test(name, out, s, fault) ==
    /\ invoked' = IF fault = "before" THEN invoked
                  ELSE Append(invoked, Invocation(name, out))
    /\ sampled' = IF fault = "before" THEN sampled ELSE <<s.g0, s.g1>>
    /\ model_tts' = IF fault = "before" THEN model_tts ELSE out.model
    /\ loads' = IF fault = "before" THEN loads ELSE out.loads
    /\ results' = IF Propagated(out, fault) = "none"
                  THEN AppendResult(results, RunTestResult(name, out, s))
                  ELSE results
    /\ returned' = IF Propagated(out, fault) = "none"
                   THEN Append(returned, RunTestResult(name, out, s))
                   ELSE returned
    /\ raised' = Propagated(out, fault)
    /\ lastOp' = "_run_test"

(***************************************************************************)
(* generate_summary_report                                                 *)
(***************************************************************************)
\* how writing the report file ends: written, or open() raised
WriteOutcomes == {"ok", "open"}

\* variant: the call keeps only the successful results
ReportedResults_DropFailed(rs) == successful_tests(rs)

\* self.results during and after the call
ReportedResults(rs) == rs

\* variant: the report is written only when no check failed
WriteReport_OnlyWhenGreen(old, rs, w) ==
    IF w = "ok" /\ failed_tests(rs) = <<>>
    THEN <<"file", DetailedResults(rs)>>
    ELSE old

\* the file after the call
WriteReport(old, rs, w) ==
    IF w = "ok" THEN <<"file", DetailedResults(rs)>> ELSE old

generate_summary_report(w) ==
    /\ results' = ReportedResults(results)
    /\ lastOp' = IF lastOp \in {"generate_summary_report", "generate_summary_report twice"}
                 THEN "generate_summary_report twice"
                 ELSE "generate_summary_report"
    /\ IF results = <<>>
       THEN \* len(successful_tests) / len(self.results): ZeroDivisionError
            /\ raised' = "ZeroDivisionError"
            /\ ret' = None
            /\ report' = report
       ELSE /\ raised' = IF w = "ok" THEN "none" ELSE "OSError"
            /\ ret' = IF w = "ok" THEN <<"summary", Summary(results)>> ELSE None
            /\ report' = WriteReport(report, results, w)

(***************************************************************************)
(* Calls of an api caller on an idle tester.                               *)
(***************************************************************************)
RunTestCall ==
    /\ caller = "api"
    /\ pc = 0
    /\ batteries = 0
    /\ Len(invoked) < MaxResults
    /\ \E out \in HostOutcomes(CallerProcedure(model_tts, loads)), s \in CallerReadings,
          fault \in SamplingFaults :
            _run_test(Battery[Len(results) + 1], out, s, fault)
    /\ ret' = None
    /\ UNCHANGED <<caller, cuda, flaky, steady, printed, report, pc,
                   batteries, exit_code>>

GenerateSummaryReportCall ==
    /\ caller = "api"
    /\ pc = 0
    /\ \E w \in WriteOutcomes : generate_summary_report(w)
    /\ UNCHANGED <<caller, cuda, flaky, steady, printed, model_tts, loads, pc,
                   batteries, exit_code, invoked, sampled, returned>>

(***************************************************************************)
(* run_all_tests as main calls it, on the tester it has just built; one     *)
(* _run_test call per step.  The checks of the battery are observed at     *)
(* the idle reading of the three meters.                                   *)
(***************************************************************************)
\* variant: a failed check ends the battery and goes to the report
NextCheck_FailFast(i, r) == IF r.success THEN i + 1 ELSE Len(Battery) + 1

\* the position of run_all_tests after its i-th check was recorded as r
NextCheck(i, r) == i + 1

\* run_all_tests calls the caller makes: main and the runner make one
BatteryLimit == IF caller = "repeat" THEN MaxBatteries ELSE 1

\* what the runner has printed when its caller reaches run_all_tests
Started == IF caller = "runner" THEN <<"Starting integration tests">> ELSE <<>>

RunAllTests ==
    /\ caller \in {"script", "runner", "repeat"}
    /\ pc = 0
    /\ batteries < BatteryLimit
    /\ printed = Started
    /\ exit_code = None
    /\ pc' = 1
    /\ raised' = "none"
    /\ ret' = None
    /\ lastOp' = "run_all_tests"
    /\ UNCHANGED <<caller, cuda, flaky, steady, printed, results, model_tts,
                   loads, report, batteries, exit_code, invoked, sampled,
                   returned>>

BatteryCheck ==
    /\ pc \in 1..Len(Battery)
    /\ \E out \in HostOutcomes(BatteryProcedure(pc, model_tts, loads)),
          fault \in SamplingFaults :
          /\ _run_test(Battery[pc], out, IdleReading, fault)
          /\ pc' = IF Propagated(out, fault) = "none"
                   THEN NextCheck(pc, RunTestResult(Battery[pc], out, IdleReading))
                   ELSE 0
          /\ batteries' = IF Propagated(out, fault) = "none"
                          THEN batteries
                          ELSE batteries + 1
    /\ UNCHANGED <<caller, cuda, flaky, steady, printed, report, ret,
                   exit_code>>

BatteryReport ==
    /\ pc = Len(Battery) + 1
    /\ \E w \in WriteOutcomes : generate_summary_report(w)
    /\ pc' = 0
    /\ batteries' = batteries + 1
    /\ UNCHANGED <<caller, cuda, flaky, steady, printed, model_tts, loads,
                   exit_code, invoked, sampled, returned>>

(***************************************************************************)
(* main run as a script: "if __name__ == '__main__': main()".  The value   *)
(* main returns is dropped; the process ends with status 0 unless an       *)
(* exception left main.                                                    *)
(***************************************************************************)
ExitStatus(exc, summary) == IF exc = "none" THEN 0 ELSE 1

ScriptExit ==
    /\ caller = "script"
    /\ pc = 0
    /\ batteries = 1
    /\ exit_code = None
    /\ exit_code' = Num(ExitStatus(raised, ret))
    /\ UNCHANGED <<caller, cuda, flaky, steady, printed, results, model_tts,
                   loads, report, ret, raised, pc, batteries, invoked,
                   sampled, returned, lastOp>>

(***************************************************************************)
(* run_integration_tests.main: the suite file must exist and the           *)
(* requirements install; then it builds a tester, runs the battery and     *)
(* returns the exit status; sys.exit(main()) makes it the process status.  *)
(***************************************************************************)
Requirements == <<"chatterbox-tts", "psutil", "numpy", "torch", "torchaudio">>

\* pip[i] tells whether "pip install Requirements[i]" exits with status 0;
\* the loop returns False at the first CalledProcessError
install_requirements(pip) == \A i \in 1..Len(Requirements) : pip[i]

\* the line main prints before it runs the battery or gives up
Preflight(exists, pip) ==
    IF ~exists THEN "integration_test_suite.py not found"
    ELSE IF ~install_requirements(pip) THEN "Failed to install requirements"
    ELSE "Starting integration tests"

RunnerPreflight ==
    /\ caller = "runner"
    /\ pc = 0
    /\ printed = <<>>
    /\ exit_code = None
    /\ \E exists \in BOOLEAN, pip \in [1..Len(Requirements) -> BOOLEAN] :
          /\ printed' = <<Preflight(exists, pip)>>
          /\ exit_code' = IF <<Preflight(exists, pip)>> = Started
                          THEN None
                          ELSE Num(1)
    /\ UNCHANGED <<caller, cuda, flaky, steady, results, model_tts, loads,
                   report, ret, raised, pc, batteries, invoked, sampled,
                   returned, lastOp>>

\* "from integration_test_suite import ChatterboxIntegrationTester" or the
\* constructor raises: the except clause of main returns 1
RunnerImportFailure ==
    /\ caller = "runner"
    /\ pc = 0
    /\ batteries = 0
    /\ printed = Started
    /\ exit_code = None
    /\ raised' = "ImportError"
    /\ printed' = Append(printed, "Test execution failed")
    /\ exit_code' = Num(1)
    /\ UNCHANGED <<caller, cuda, flaky, steady, results, model_tts, loads,
                   report, ret, pc, batteries, invoked, sampled, returned,
                   lastOp>>

\* variant: the except clause announces success
RunnerVerdict_ExceptPasses(exc, summary) ==
    IF exc # "none" THEN "ALL TESTS PASSED"
    ELSE IF summary[2].test_summary.failed_tests = 0 THEN "ALL TESTS PASSED"
    ELSE "Some tests failed"

\* the verdict line main prints after run_all_tests ended with exc, or
\* returned summary
RunnerVerdict(exc, summary) ==
    IF exc # "none" THEN "Test execution failed"
    ELSE IF summary[2].test_summary.failed_tests = 0 THEN "ALL TESTS PASSED"
    ELSE "Some tests failed"

\* variant: return 0 whenever run_all_tests returned
RunnerStatus_IgnoreFailures(exc, summary) == IF exc # "none" THEN 1 ELSE 0

\* "return 0 if summary['test_summary']['failed_tests'] == 0 else 1", and
\* "return 1" of the except clause
RunnerStatus(exc, summary) ==
    IF exc # "none" THEN 1
    ELSE IF summary[2].test_summary.failed_tests = 0 THEN 0
    ELSE 1

RunnerExit ==
    /\ caller = "runner"
    /\ pc = 0
    /\ batteries = 1
    /\ exit_code = None
    /\ printed' = Append(printed, RunnerVerdict(raised, ret))
    /\ exit_code' = Num(RunnerStatus(raised, ret))
    /\ UNCHANGED <<caller, cuda, flaky, steady, results, model_tts, loads,
                   report, ret, raised, pc, batteries, invoked, sampled,
                   returned, lastOp>>

Fresh ==
    /\ printed = <<>>
    /\ results = <<>>
    /\ model_tts = None
    /\ loads = 0
    /\ report = <<"absent">>
    /\ ret = None
    /\ raised = "none"
    /\ pc = 0
    /\ batteries = 0
    /\ exit_code = None
    /\ invoked = <<>>
    /\ sampled = <<0, 0>>
    /\ returned = <<>>
    /\ lastOp = "none"

Init ==
    /\ caller \in {"api", "script", "runner"}
    /\ cuda \in BOOLEAN
    /\ flaky = FALSE
    /\ steady = FALSE
    /\ Fresh

\* the same program on a host without accelerator whose sampling calls may
\* raise
InitHarness ==
    /\ caller \in {"api", "script", "runner"}
    /\ cuda = FALSE
    /\ flaky = TRUE
    /\ steady = FALSE
    /\ Fresh

\* the same program on a steady host, where a caller may also run the
\* battery again on the tester it has
InitRepeat ==
    /\ caller \in {"api", "script", "runner", "repeat"}
    /\ cuda \in BOOLEAN
    /\ flaky = FALSE
    /\ steady = TRUE
    /\ Fresh

Next ==
    \/ RunTestCall
    \/ GenerateSummaryReportCall
    \/ RunAllTests
    \/ BatteryCheck
    \/ BatteryReport
    \/ ScriptExit
    \/ RunnerPreflight
    \/ RunnerImportFailure
    \/ RunnerExit

Spec == Init /\ [][Next]_vars

SpecRepeat == InitRepeat /\ [][Next]_vars

SpecHarness == InitHarness /\ [][Next]_vars

(***************************************************************************)
(* Properties.                                                             *)
(***************************************************************************)
Generated == lastOp \in {"generate_summary_report", "generate_summary_report twice"}

\* the summary the last generate_summary_report call returned
HasSummary == ret # None
LastSummary == ret[2]

Succeeded == {i \in 1..Len(results) : results[i].success}
Failed == {i \in 1..Len(results) : ~results[i].success}

\* the sum of the function f over the index set S
RECURSIVE SumOver(_, _)
SumOver(S, f) ==
    IF S = {} THEN 0
    ELSE LET i == CHOOSE j \in S : TRUE IN f[i] + SumOver(S \ {i}, f)

TimeOf == [i \in 1..Len(results) |-> results[i].execution_time]
MemoryOf == [i \in 1..Len(results) |-> results[i].memory_usage_mb]

IsZero(v) == v = Num(0) \/ v = <<"frac", 0, 1>>

\* v is the mean of f over the non-empty index set S
IsMeanOf(v, S, f) ==
    /\ v[1] = "frac"
    /\ v[3] > 0
    /\ v[2] * Cardinality(S) = v[3] * SumOver(S, f)

\* v is the largest f over the non-empty index set S
IsMaxOf(v, S, f) ==
    /\ v[1] = "num"
    /\ \E i \in S : f[i] = v[2]
    /\ \A i \in S : f[i] <= v[2]

\* C1: every summary generate_summary_report produces has
\* successful_tests + failed_tests = total_tests and total_tests = the
\* number of results in self.results.
C1_CountsAddUp ==
    HasSummary =>
        /\ LastSummary.test_summary.successful_tests
             + LastSummary.test_summary.failed_tests
           = LastSummary.test_summary.total_tests
        /\ LastSummary.test_summary.total_tests = Len(results)

C1_Witness ==
    /\ HasSummary
    /\ LastSummary.test_summary.successful_tests = 1
    /\ LastSummary.test_summary.failed_tests = 1
    /\ \E i \in Failed : results[i].error_message = Str("")

\* C2: generate_summary_report on an empty result list returns normally with
\* success rate 0 and average duration 0.
C2_EmptyReportIsZero ==
    (Generated /\ results = <<>>) =>
        /\ raised = "none"
        /\ HasSummary
        /\ IsZero(LastSummary.test_summary.success_rate)
        /\ IsZero(LastSummary.performance_summary.avg_execution_time)

\* C3 as stated: no failure leaves _run_test, the sampling steps before and
\* after the procedure included: every call returns a TestResult and appends
\* it.
C3_NothingPropagates ==
    lastOp = "_run_test" =>
        /\ raised = "none"
        /\ Len(results) = Len(returned)
        /\ Len(returned) > 0

\* C3 amended: no failure raised by the check procedure leaves _run_test: a
\* call whose two sampling steps succeed returns a TestResult, appended to
\* the results, with success telling whether the procedure returned; a
\* failure of a sampling step leaves _run_test and no result is appended.
C3_ProcedureFailureContained ==
    /\ [](raised # "CheckFailure")
    /\ [][(lastOp' = "_run_test" /\ Len(invoked') = Len(invoked) + 1) =>
            IF raised' = "SamplingFailure"
            THEN results' = results /\ returned' = returned
            ELSE /\ raised' = "none"
                 /\ Len(results') = Len(results) + 1
                 /\ returned' = Append(returned, results'[Len(results')])
                 /\ results'[Len(results')].success
                      = ~invoked'[Len(invoked')].raises]_vars

\* the first procedure raised and was recorded as failed; the sampling after
\* the second procedure raised and left _run_test
C3_Witness ==
    /\ flaky
    /\ lastOp = "_run_test"
    /\ raised = "SamplingFailure"
    /\ Len(invoked) = 2
    /\ invoked[1].raises
    /\ Len(results) = 1
    /\ ~results[1].success
    /\ results[1].error_message = invoked[1].error

\* C4: a TestResult has one of two shapes: success, the payload the
\* procedure returned and no error_message when the procedure returned;
\* no success, the empty mapping and the failure's description when it
\* raised.  So error_message is present iff success is false.
C4_TwoShapes ==
    /\ Len(results) = Len(invoked)
    /\ \A i \in 1..Len(results) :
        /\ results[i].error_message # None <=> ~results[i].success
        /\ IF invoked[i].raises
           THEN /\ ~results[i].success
                /\ results[i].output_info = {}
                /\ results[i].error_message = invoked[i].error
                /\ results[i].error_message # None
           ELSE /\ results[i].success
                /\ results[i].output_info = invoked[i].value
                /\ results[i].error_message = None

C4_Witness ==
    /\ Len(results) = 2
    /\ results[1].success
    /\ results[1].output_info # {}
    /\ ~results[2].success
    /\ results[2].error_message = Str("")

InBattery == pc > 0 \/ batteries > 0

\* C5: in run_all_tests no check failure is fatal: whichever checks raise,
\* the nine checks are invoked one at a time in declaration order, no
\* failure leaves a check, and the summary report is generated after the
\* ninth.
C5_AllChecksRun ==
    InBattery =>
        /\ \A i \in 1..Len(invoked) : invoked[i].name = Battery[i]
        /\ raised \in {"none", "OSError"}
        /\ pc \in 1..Len(Battery) => Len(invoked) = pc - 1 /\ ~Generated
        /\ pc = Len(Battery) + 1 => Len(invoked) = Len(Battery) /\ ~Generated
        /\ batteries > 0 => Len(invoked) = Len(Battery) /\ Generated
        /\ Len(results) = Len(invoked)

C5_Witness ==
    /\ batteries = 1
    /\ Generated
    /\ invoked[1].raises
    /\ invoked[2].raises
    /\ ~invoked[3].raises
    /\ invoked[4].raises
    /\ ~invoked[9].raises

\* C6: the script ends with exit code 0 when all checks of the battery
\* succeeded and with a non-zero exit code when at least one failed.
C6_ExitCodeTellsFailure ==
    (exit_code # None /\ raised = "none") =>
        (exit_code = Num(0) <=> Failed = {})

\* C7: run_all_tests on a fresh tester ends with the report file written,
\* holding the summary and one detailed entry per executed check, however
\* many of the nine checks failed, unless the write itself failed.
C7_ReportWritten ==
    (batteries = 1 /\ pc = 0 /\ lastOp = "generate_summary_report"
       /\ raised # "OSError") =>
        /\ report[1] = "file"
        /\ HasSummary
        /\ report[2].summary = LastSummary
        /\ Len(invoked) = Len(Battery)
        /\ Len(report[2].detailed_results) = Len(invoked)
        /\ \A i \in 1..Len(invoked) :
              /\ <<"test_name", invoked[i].name>> \in report[2].detailed_results[i]
              /\ <<"success", ~invoked[i].raises>> \in report[2].detailed_results[i]

C7_Witness ==
    /\ batteries = 1
    /\ pc = 0
    /\ lastOp = "generate_summary_report"
    /\ Cardinality(Failed) = Len(Battery)
    /\ report[1] = "file"
    /\ report[2].summary.test_summary.failed_tests = Len(Battery)

C9_AggregatesOverSucceeded ==
    HasSummary =>
        LET perf == LastSummary.performance_summary IN
        IF Succeeded = {}
        THEN /\ perf.avg_execution_time = Num(0)
             /\ perf.max_execution_time = Num(0)
             /\ perf.avg_memory_usage_mb = Num(0)
             /\ perf.max_memory_usage_mb = Num(0)
        ELSE /\ IsMeanOf(perf.avg_execution_time, Succeeded, TimeOf)
             /\ IsMaxOf(perf.max_execution_time, Succeeded, TimeOf)
             /\ IsMeanOf(perf.avg_memory_usage_mb, Succeeded, MemoryOf)
             /\ IsMaxOf(perf.max_memory_usage_mb, Succeeded, MemoryOf)

C9_Witness ==
    /\ HasSummary
    /\ \E i \in Succeeded, j \in Failed :
          /\ TimeOf[j] > TimeOf[i]
          /\ LastSummary.performance_summary.max_execution_time = Num(TimeOf[i])

\* C10: self.results keeps the invocation order and is append-only:
\* results[i] is the result of the i-th _run_test call, a call adds exactly
\* one entry at the end, and no operation changes or removes an entry.
C10_AppendOnly ==
    /\ [](results = returned)
    /\ [][/\ Len(results') >= Len(results)
          /\ SubSeq(results', 1, Len(results)) = results
          /\ Len(invoked') = Len(invoked) + 1 =>
                /\ Len(results') = Len(results) + 1
                /\ results'[Len(results')].test_name
                     = invoked'[Len(invoked')].name]_vars

C10_Witness ==
    /\ Len(results) = 2
    /\ results[1] # results[2]
    /\ results[2].memory_usage_mb < 0
    /\ Generated

\* C12: gpu_memory_mb of a TestResult is None exactly when no accelerator is
\* present; with one present it is (accelerator memory after) - (accelerator
\* memory before) for every pair of readings, a reading of 0 included,
\* whether the check succeeded or failed.
C12_GpuDeltaIsDifference ==
    (lastOp = "_run_test" /\ raised = "none") =>
        LET r == results[Len(results)]
        IN /\ r.gpu_memory_mb = None <=> ~cuda
           /\ cuda => r.gpu_memory_mb = Num(sampled[2] - sampled[1])

LoadFailed(i) == invoked[i].error = Str("CapabilityInitializationFailure")

\* C13: in one run_all_tests on a fresh tester the model is created on first
\* use and reused: once a load has succeeded no later check calls the loader
\* and model_tts stays that instance until the run ends; a later check calls
\* the loader only while model_tts is unset, every earlier load having
\* failed.
C13_LoadedOnceThenReused ==
    /\ [](batteries = 0 /\ pc >= 1 =>
            IF model_tts = None
            THEN /\ loads = Len(invoked)
                 /\ \A i \in 1..Len(invoked) : LoadFailed(i)
            ELSE /\ model_tts = Obj(loads)
                 /\ \A i \in 1..(loads - 1) : LoadFailed(i)
                 /\ ~LoadFailed(loads))
    /\ [][(batteries = 0 /\ pc >= 1) =>
            /\ model_tts # None => model_tts' = model_tts /\ loads' = loads
            /\ loads' # loads => model_tts = None /\ loads' = loads + 1]_vars

\* the first two loads failed, the third check loaded the model and the
\* ninth check ran on it
C13_Witness ==
    /\ batteries = 1
    /\ pc = 0
    /\ loads = 3
    /\ model_tts = Obj(3)
    /\ Len(invoked) = Len(Battery)
    /\ ~invoked[Len(Battery)].raises

EdgeCheck == 7

\* C14: in test_edge_cases with the model already loaded, the four generate
\* calls (empty_text, single_char, very_long_text, extreme_params) are made
\* once each in that order whatever the earlier ones did; for every subset of
\* failing calls the payload has exactly these four entries, each True exactly
\* when its own call returned; the check does not raise and is recorded as
\* succeeded.
C14_EdgeCasesIndependent ==
    [][(pc = EdgeCheck /\ model_tts # None) =>
        /\ \A oks \in [1..Len(EdgeCases) -> BOOLEAN] :
             \E out \in test_edge_cases(model_tts, loads) :
                /\ ~out.raises
                /\ Len(out.calls) = Len(EdgeCases)
                /\ \A i \in 1..Len(EdgeCases) : out.calls[i].ok = oks[i]
        /\ LET call == invoked'[Len(invoked')]
               r == results'[Len(results')]
           IN /\ Len(invoked') = Len(invoked) + 1
              /\ Len(results') = Len(results) + 1
              /\ call.name = "Edge Cases"
              /\ ~call.raises
              /\ [i \in 1..Len(call.calls) |-> call.calls[i].case] = EdgeCases
              /\ r.test_name = "Edge Cases"
              /\ r.success
              /\ r.error_message = None
              /\ Cardinality(r.output_info) = Len(EdgeCases)
              /\ r.output_info
                   = {<<call.calls[i].case, PyBool(call.calls[i].ok)>> :
                        i \in 1..Len(call.calls)}
              /\ model_tts' = model_tts
              /\ loads' = loads]_vars

\* the first and the third call failed, the second and the fourth returned
C14_Witness ==
    /\ pc = EdgeCheck + 1
    /\ Len(invoked) = EdgeCheck
    /\ loads = 1
    /\ Len(invoked[EdgeCheck].calls) = Len(EdgeCases)
    /\ ~invoked[EdgeCheck].calls[1].ok
    /\ invoked[EdgeCheck].calls[2].ok
    /\ ~invoked[EdgeCheck].calls[3].ok
    /\ invoked[EdgeCheck].calls[4].ok
    /\ results[EdgeCheck].success

Lines(seq) == {seq[i] : i \in 1..Len(seq)}

\* C11: a failure inside generate_summary_report (the report file cannot be
\* written, say) is not swallowed: the call ends with that exception and
\* returns no summary, to the api caller as to run_all_tests' caller; the
\* runner then never prints its success line and ends with status 1 after
\* "Test execution failed".
C11_ReportFailurePropagates ==
    (lastOp = "generate_summary_report" /\ report = <<"absent">>) =>
        /\ raised \in {"OSError", "ZeroDivisionError"}
        /\ ret = None
        /\ caller = "runner" =>
            /\ "ALL TESTS PASSED" \notin Lines(printed)
            /\ exit_code # None =>
                /\ exit_code = Num(1)
                /\ printed = <<"Starting integration tests", "Test execution failed">>

\* every check passed, the report could not be written, the runner ended
C11_Witness ==
    /\ caller = "runner"
    /\ exit_code # None
    /\ lastOp = "generate_summary_report"
    /\ raised = "OSError"
    /\ report = <<"absent">>
    /\ Len(results) = Len(Battery)
    /\ \A i \in 1..Len(results) : results[i].success

\* C15: run_integration_tests.main returns 0 exactly when the requirements
\* installed, the whole battery ran, the report was generated and its
\* failed_tests is 0; on every other path it returns 1; when the suite file
\* is missing or an install fails, no check is run.
C15_RunnerStatus ==
    /\ (caller = "runner" /\ exit_code # None) =>
        /\ exit_code \in {Num(0), Num(1)}
        /\ exit_code = Num(0) <=>
            /\ printed[1] = "Starting integration tests"
            /\ Len(invoked) = Len(Battery)
            /\ Len(results) = Len(Battery)
            /\ lastOp = "generate_summary_report"
            /\ raised = "none"
            /\ report = <<"file", DetailedResults(results)>>
            /\ ret = <<"summary", Summary(results)>>
            /\ ret[2].test_summary.failed_tests = 0
    /\ (caller = "runner" /\ printed # <<>>
            /\ printed[1] # "Starting integration tests") =>
        /\ printed[1] \in {"integration_test_suite.py not found",
                           "Failed to install requirements"}
        /\ exit_code = Num(1)
        /\ invoked = <<>>
        /\ results = <<>>
        /\ loads = 0
        /\ batteries = 0
        /\ pc = 0

\* the runner ended with status 0 after a battery without failure
C15_Witness ==
    /\ caller = "runner"
    /\ exit_code = Num(0)
    /\ printed = <<"Starting integration tests", "ALL TESTS PASSED">>
    /\ Len(results) = Len(Battery)

\* C16: the summary run_all_tests returns reports total_tests = 9, the
\* checks of one battery; when run_all_tests is called again on the same
\* tester, each call's summary counts only its own nine checks.
C16_EachBatteryCountsNine ==
    (caller \in {"script", "runner", "repeat"} /\ pc = 0 /\ batteries >= 1
        /\ lastOp = "generate_summary_report" /\ raised = "none") =>
        ret[2].test_summary.total_tests = Len(Battery)

====
